---- MODULE Spec2Model ----
(***************************************************************************)
(* Store-Test: the cart and order handlers of api/controllers.py over the  *)
(* tables of api/models.py.  One request is handled at a time; a handler   *)
(* is an operator from the stored tables and the request's arguments to    *)
(* the tables it leaves behind and the HTTP status it answers with.        *)
(*                                                                         *)
(* Two facts of the source shape the whole model:                          *)
(*  - flask_restful.abort raises an HTTPException, which is an Exception:  *)
(*    an abort(404)/abort(400) raised inside a `try:` whose handler is     *)
(*    `except Exception` is caught there, the session is rolled back and   *)
(*    the request is answered with abort(500).                             *)
(*  - orders.total_amount and order_items.price_at_time are declared       *)
(*    nullable=False without a default and no handler assigns them, so     *)
(*    the INSERT of an OrderModel row violates NOT NULL.                   *)
(***************************************************************************)
EXTENDS Integers, Sequences, FiniteSets, TLC

\* ---------------------------------------------------------------- bounds
NumUsers == 1
NumProducts == 2
MaxLines == 2

\* ------------------------------------------------------ program constants
MAX_QUANTITY == 99
MIN_QUANTITY == 1
MAX_CART_ITEMS == 20

\* ------------------------------------------------------------ input sets
\* Ids a request may name: the stored ones and one that is never stored.
UserIds == 1..NumUsers
ProductIds == 1..NumProducts
RequestUserIds == 1..(NumUsers + 1)
RequestProductIds == 1..(NumProducts + 1)
\* Quantities of cart requests: negative, zero, in range, above MAX_QUANTITY.
Quantities == {-40, 0, 40, 100}
\* Quantities of order lines: zero, and one that fits a stock of 50 once
\* but not twice.
OrderQuantities == {0, 40}
\* Stocks and prices of the products the handlers start from, by product id
\* (values Products.post accepts), and the values a product update may store
\* (Products.put validates nothing, so a negative stock is among them).
StockCycle == <<100, 50, 0>>
PriceCycle == <<3, 5>>
InitStock(p) == StockCycle[((p - 1) % Len(StockCycle)) + 1]
InitPrice(p) == PriceCycle[((p - 1) % Len(PriceCycle)) + 1]

\* Text (names, e-mail addresses, passwords) is a sequence of one-character
\* strings, so that len() and strip() are computed on it.
DigitChars == <<"0", "1", "2", "3", "4", "5", "6", "7", "8", "9">>

RECURSIVE Decimal(_)
Decimal(n) ==
    IF n < 10 THEN <<DigitChars[n + 1]>>
    ELSE Decimal(n \div 10) \o <<DigitChars[(n % 10) + 1]>>

\* The categories, and the names and categories of the products, the
\* handlers start from: every product in the first category, as in the
\* test fixture, under a name of its own.
CategoryIds == 1..2
InitName(p) == <<"i", "t", "e", "m">> \o Decimal(p)
InitCategory(p) == 1
InitProduct(p) ==
    [price |-> InitPrice(p), stock |-> InitStock(p),
     name |-> InitName(p), category_id |-> InitCategory(p)]

\* str.strip(): the text without its leading and trailing blanks.
RECURSIVE strip(_)
strip(text) ==
    IF Len(text) = 0 THEN text
    ELSE IF text[1] = " " THEN strip(Tail(text))
    ELSE IF text[Len(text)] = " " THEN strip(SubSeq(text, 1, Len(text) - 1))
    ELSE text

\* Product requests: a name that is too short, the name of the first
\* product and a new name; a category id that is never stored; prices and
\* stocks below, within and above the bounds of Products.post.
MAX_PRICE == 1000000
MAX_STOCK == 10000
RequestCategoryIds == 1..3
ProductNames == {<<"t", "v">>, InitName(1), <<"l", "a", "m", "p">>}
PostPrices == {0, 5, MAX_PRICE + 1}
PostStocks == {-1, 50, MAX_STOCK + 1}
EditPrices == {0, 5}
EditStocks == {-1, 50}

\* The character classes of the e-mail pattern.
Letters ==
    {"a", "b", "c", "d", "e", "f", "g", "h", "i", "j", "k", "l", "m",
     "n", "o", "p", "q", "r", "s", "t", "u", "v", "w", "x", "y", "z",
     "A", "B", "C", "D", "E", "F", "G", "H", "I", "J", "K", "L", "M",
     "N", "O", "P", "Q", "R", "S", "T", "U", "V", "W", "X", "Y", "Z"}
Digits == {DigitChars[i] : i \in 1..10}
LocalChars == Letters \cup Digits \cup {".", "_", "%", "+", "-"}
DomainChars == Letters \cup Digits \cup {".", "-"}

\* re.match(email_pattern, email) for
\* ^[a-zA-Z0-9._%+-]+@[a-zA-Z0-9.-]+\.[a-zA-Z]{2,}$ on a text without
\* line breaks: a local part up to the "@" at i, a domain up to the "." at
\* j, and two or more letters after it.
email_pattern(email) ==
    \E i \in 2..Len(email) :
        /\ email[i] = "@"
        /\ \A k \in 1..(i - 1) : email[k] \in LocalChars
        /\ \E j \in (i + 2)..(Len(email) - 2) :
              /\ email[j] = "."
              /\ \A k \in (i + 1)..(j - 1) : email[k] \in DomainChars
              /\ \A k \in (j + 1)..Len(email) : email[k] \in Letters

\* Users.validate_email.
validate_email(email) ==
    IF Len(email) = 0 THEN FALSE
    ELSE IF Len(email) > 254 THEN FALSE
    ELSE IF ~\E i \in 1..Len(email) : email[i] = "@" THEN FALSE
    ELSE
    LET at == CHOOSE i \in 1..Len(email) :
                  /\ email[i] = "@"
                  /\ \A k \in (i + 1)..Len(email) : email[k] # "@"
        local_part == SubSeq(email, 1, at - 1)
        domain == SubSeq(email, at + 1, Len(email))
    IN IF Len(local_part) > 64 \/ Len(domain) > 255 THEN FALSE
       ELSE IF \E k \in 1..(Len(email) - 1) : email[k] = "." /\ email[k + 1] = "."
       THEN FALSE
       ELSE IF /\ Len(local_part) > 0
               /\ (local_part[1] = "." \/ local_part[Len(local_part)] = ".")
       THEN FALSE
       ELSE IF /\ Len(domain) > 0
               /\ (domain[1] = "-" \/ domain[Len(domain)] = "-")
       THEN FALSE
       ELSE email_pattern(email)

\* UserModel.set_password: the password is stored as its hash.
set_password(password) == <<"hash", password>>

\* The columns of the users the handlers start from.
InitUsername(u) == <<"u", "s", "e", "r">> \o Decimal(u)
InitEmail(u) == <<"u">> \o Decimal(u) \o <<"@", "x", ".", "i", "o">>
InitPassword == <<"s", "e", "c", "r", "e", "t">>
InitAccount(u) ==
    [username |-> InitUsername(u), email |-> InitEmail(u),
     password |-> set_password(InitPassword)]
PutStocks == {-1, 0, 50, 100}
PutPrices == {3, 5}

\* A column that holds no value (SQL NULL) is the empty set, a value v is {v}.
NULL == {}
Val(v) == {v}

\* users holds the ids of the rows of table users and accounts their
\* columns; in_flight holds the order requests that have been received and
\* not yet answered.
VARIABLES users, products, cart_items, orders, order_items, last,
          accounts, categories, in_flight

vars == <<users, products, cart_items, orders, order_items, last,
          accounts, categories, in_flight>>

\* The stored tables as one value, the argument and result of every handler.
DB == [users |-> users, products |-> products, cart_items |-> cart_items,
       orders |-> orders, order_items |-> order_items,
       accounts |-> accounts, categories |-> categories]

SetMax(S) == CHOOSE m \in S : \A x \in S : x <= m

\* INTEGER PRIMARY KEY of SQLite: the new row's id is the largest id + 1.
NextId(rows) == IF rows = {} THEN 1 ELSE SetMax({r.id : r \in rows}) + 1

\* Cart item ids are opaque to every handler except for their order among
\* the rows of one (user, product) pair, which Query.first() goes by (the
\* model keeps listings as sets).  Between requests the model renumbers the
\* cart items 1..n by (user_id, product_id, id): the order within a pair is
\* kept and the ids stay finite.
Before(o, r) ==
    \/ o.user_id < r.user_id
    \/ o.user_id = r.user_id /\ o.product_id < r.product_id
    \/ o.user_id = r.user_id /\ o.product_id = r.product_id /\ o.id <= r.id

Renumber(rows) ==
    {[r EXCEPT !.id = Cardinality({o \in rows : Before(o, r)})] : r \in rows}

\* The outcome of a handler: the tables committed, the status answered and
\* the message of the response.
Result(d, status, message) == [db |-> d, status |-> status, message |-> message]

\* An abort(code) raised inside a try block whose handler is
\* `except Exception`: the handler rolls the session back and answers 500;
\* str(e) of the HTTPException carries the code, not the message given to
\* abort.
Swallowed(d, code) == Result(d, 500, <<"An error occurred", code>>)

\* ------------------------------------------------------------- CartModel
\* @validates('quantity'): TRUE when the assignment is accepted, FALSE when
\* it raises ValueError (the value is then not assigned).
\* validate_quantity without its upper bound.
validate_quantity_no_max(quantity) == ~(quantity < MIN_QUANTITY)

validate_quantity(quantity) ==
    /\ ~(quantity < MIN_QUANTITY)
    /\ ~(quantity > MAX_QUANTITY)

is_valid(d, item) ==
    /\ item.product_id \in DOMAIN d.products
    /\ ~(d.products[item.product_id].stock < item.quantity)

\* CartModel.adjust_quantity: the quantity the item has afterwards.
adjust_quantity(item, available_stock) ==
    IF available_stock < item.quantity THEN available_stock ELSE item.quantity

get_user_cart(d, user_id) == {i \in d.cart_items : i.user_id = user_id}

\* clear_cart without its filter on user_id.
clear_cart_every_user(d, user_id) == d.cart_items

\* CartModel.clear_cart: the rows the bulk DELETE removes.
clear_cart(d, user_id) == {i \in d.cart_items : i.user_id = user_id}

\* first_cart_item with the row id compared with product_id.
first_cart_item_by_id(d, user_id, product_id) ==
    LET found == {i \in d.cart_items : i.user_id = user_id /\ i.id = product_id}
    IN IF found = {} THEN NULL
       ELSE {CHOOSE r \in found : \A o \in found : r.id <= o.id}

\* Query.first() of filter_by(user_id, product_id): the row of lowest id as
\* {row}, or NULL when there is none.
first_cart_item(d, user_id, product_id) ==
    LET rows == {i \in d.cart_items :
                    i.user_id = user_id /\ i.product_id = product_id}
    IN IF rows = {} THEN NULL
       ELSE Val(CHOOSE r \in rows : \A o \in rows : r.id <= o.id)

Row(opt) == CHOOSE r \in opt : TRUE

\* Cart.get without the `continue` of line 431: an item that is not valid
\* is adjusted and reported like the others before it is deleted.
Cart_get_without_continue(d, user_id) ==
    IF user_id \notin d.users THEN Swallowed(d, 404) @@ [items |-> {}]
    ELSE
    LET cart == get_user_cart(d, user_id)
        removed_items == {i \in cart : ~is_valid(d, i)}
        needs(i) == /\ i.product_id \in DOMAIN d.products
                    /\ d.products[i.product_id].stock < i.quantity
        adjusted(i) == IF needs(i)
                       THEN [i EXCEPT !.quantity =
                                adjust_quantity(i, d.products[i.product_id].stock)]
                       ELSE i
        raises == \E i \in cart :
                     \/ i.product_id \notin DOMAIN d.products
                     \/ needs(i) /\ ~validate_quantity(adjusted(i).quantity)
        body == {[product_id |-> i.product_id, quantity |-> adjusted(i).quantity] :
                    i \in cart}
    IN IF raises THEN Swallowed(d, 0) @@ [items |-> {}]
       ELSE IF removed_items # {}
       THEN Result([d EXCEPT !.cart_items = @ \ removed_items],
                   200, "Some items were removed") @@ [items |-> body]
       ELSE Result(d, 200, "None") @@ [items |-> body]

\* ------------------------------------------------------------------ Cart
\* Cart.get.  The user check aborts inside the try block, so a missing user
\* is answered with 500.  An item that is not is_valid is deleted; for the
\* items kept, the adjustment branch is translated as written (is_valid has
\* already excluded stock < quantity).  The session is committed only when
\* an item was removed: no item ever has the attribute _modified.
Cart_get(d, user_id) ==
    IF user_id \notin d.users THEN Swallowed(d, 404) @@ [items |-> {}]
    ELSE
    LET cart == get_user_cart(d, user_id)
        removed_items == {i \in cart : ~is_valid(d, i)}
        kept == cart \ removed_items
        needs(i) == /\ i.product_id \in DOMAIN d.products
                    /\ d.products[i.product_id].stock < i.quantity
        adjusted(i) == IF needs(i)
                       THEN [i EXCEPT !.quantity =
                                adjust_quantity(i, d.products[i.product_id].stock)]
                       ELSE i
        raises == \E i \in kept : needs(i) /\ ~validate_quantity(adjusted(i).quantity)
        items == {adjusted(i) : i \in kept}
        body == {[product_id |-> i.product_id, quantity |-> i.quantity] : i \in items}
        removed_message == IF removed_items # {} THEN "Some items were removed"
                           ELSE "None"
    IN IF raises THEN Swallowed(d, 0) @@ [items |-> {}]
       ELSE IF removed_items # {}
       THEN Result([d EXCEPT !.cart_items = (d.cart_items \ cart) \cup items],
                   200, removed_message) @@ [items |-> body]
       ELSE Result(d, 200, removed_message) @@ [items |-> body]

\* cart_is_full with > for >=.
cart_is_full_above_limit(current_items, cart_item) ==
    current_items > MAX_CART_ITEMS /\ cart_item = NULL

\* Cart.post, line 504: the cart holds MAX_CART_ITEMS lines and the request
\* would add another.
cart_is_full(current_items, cart_item) ==
    current_items >= MAX_CART_ITEMS /\ cart_item = NULL

\* new_quantity with the replace flag ignored.
new_quantity_always_adds(existing, quantity, replace) == existing + quantity

\* Cart.post, line 510: the quantity an existing cart item is given.
new_quantity(existing, quantity, replace) ==
    IF replace THEN quantity ELSE existing + quantity

\* Cart.post that also takes the quantity added out of the product's stock
\* (`product.stock -= quantity`, as add_to_cart of main.py does) behind the
\* handler's own stock check, stock <= 0.
Cart_post_reserving(d, user_id, product_id, quantity, replace) ==
    IF user_id \notin d.users THEN Swallowed(d, 404)
    ELSE IF product_id \notin DOMAIN d.products THEN Swallowed(d, 404)
    ELSE IF d.products[product_id].stock <= 0 THEN Swallowed(d, 400)
    ELSE
    LET cart_item == first_cart_item(d, user_id, product_id)
        target == IF cart_item # NULL
                  THEN new_quantity(Row(cart_item).quantity, quantity, replace)
                  ELSE quantity
        row == IF cart_item # NULL
               THEN [Row(cart_item) EXCEPT !.quantity = target]
               ELSE [id |-> NextId(d.cart_items), user_id |-> user_id,
                     product_id |-> product_id, quantity |-> quantity]
    IN IF ~validate_quantity(target) THEN Swallowed(d, 400)
       ELSE Result([d EXCEPT
                      !.cart_items = (@ \ cart_item) \cup {row},
                      !.products[product_id].stock = @ - quantity],
                   IF cart_item # NULL THEN 200 ELSE 201, "reserved")
            @@ [quantity |-> target]

\* Cart.post.  Every abort below is raised inside the outer try block and is
\* caught by `except Exception`: rollback, then abort(500).  A successful
\* response carries the stored quantity.
Cart_post(d, user_id, product_id, quantity, replace) ==
    IF user_id \notin d.users THEN Swallowed(d, 404)
    ELSE IF product_id \notin DOMAIN d.products THEN Swallowed(d, 404)
    ELSE IF d.products[product_id].stock <= 0 THEN Swallowed(d, 400)
    ELSE
    LET current_items == Cardinality(get_user_cart(d, user_id))
        cart_item == first_cart_item(d, user_id, product_id)
    IN IF cart_is_full(current_items, cart_item) THEN Swallowed(d, 400)
       ELSE IF cart_item # NULL
       THEN LET old == Row(cart_item)
                new == new_quantity(old.quantity, quantity, replace)
            IN IF ~validate_quantity(new) THEN Swallowed(d, 400)
               ELSE Result([d EXCEPT !.cart_items =
                              (@ \ {old}) \cup {[old EXCEPT !.quantity = new]}],
                           200, "Cart item quantity updated successfully")
                    @@ [quantity |-> new]
       ELSE IF ~validate_quantity(quantity) THEN Swallowed(d, 400)
            ELSE Result([d EXCEPT !.cart_items = @ \cup
                           {[id |-> NextId(d.cart_items), user_id |-> user_id,
                             product_id |-> product_id, quantity |-> quantity]}],
                        201, "Item added to cart successfully")
                 @@ [quantity |-> quantity]

\* Cart.put: the stored quantity is replaced; no stock is consulted.
Cart_put(d, user_id, product_id, quantity) ==
    IF user_id \notin d.users THEN Swallowed(d, 404)
    ELSE
    LET cart_item == first_cart_item(d, user_id, product_id)
    IN IF cart_item = NULL THEN Swallowed(d, 404)
       ELSE IF ~validate_quantity(quantity) THEN Swallowed(d, 400)
       ELSE LET old == Row(cart_item)
            IN Result([d EXCEPT !.cart_items =
                         (@ \ {old}) \cup {[old EXCEPT !.quantity = quantity]}],
                      200, "Cart item updated successfully")
                 @@ [quantity |-> quantity]

\* Cart.delete.  product_id = 0 stands for a request without a product id
\* (None) and for the id 0: `if product_id:` takes both to the clear branch.
Cart_delete(d, user_id, product_id) ==
    IF user_id \notin d.users THEN Swallowed(d, 404)
    ELSE IF product_id # 0
    THEN LET cart_item == first_cart_item(d, user_id, product_id)
         IN IF cart_item = NULL THEN Swallowed(d, 404)
            ELSE Result([d EXCEPT !.cart_items = @ \ {Row(cart_item)}],
                        200, "Item removed from cart successfully")
    ELSE LET deleted == clear_cart(d, user_id)
         IN IF deleted = {} THEN Result(d, 200, "Cart is already empty")
            ELSE Result([d EXCEPT !.cart_items = @ \ deleted],
                        200, "All items removed from cart successfully")

\* -------------------------------------------------------------- Products
\* Products.put: abort_if_not_found is outside the try block (a real 404);
\* every parsed argument is stored with setattr, unvalidated.  Of the
\* product's columns the model keeps name, price, stock and category_id.
Products_put(d, product_id, name, price, stock, category_id) ==
    IF product_id \notin DOMAIN d.products
    THEN Result(d, 404, "ProductModel not found")
    ELSE Result([d EXCEPT !.products[product_id] =
                    [price |-> price, stock |-> stock,
                     name |-> name, category_id |-> category_id]],
                200, "Product updated successfully")

\* Products.post: every check aborts outside a try block.  The description
\* and its length check are left out with the column.
Products_post(d, name, price, stock, category_id) ==
    IF Len(strip(name)) < 3
    THEN Result(d, 400, "Product name must be at least 3 characters long")
    ELSE IF Len(name) > 100
    THEN Result(d, 400, "Product name cannot exceed 100 characters")
    ELSE IF price <= 0 THEN Result(d, 400, "Price must be greater than 0")
    ELSE IF price > MAX_PRICE THEN Result(d, 400, "Price cannot exceed 1,000,000")
    ELSE IF stock < 0 THEN Result(d, 400, "Stock cannot be negative")
    ELSE IF stock > MAX_STOCK THEN Result(d, 400, "Stock cannot exceed 10,000 units")
    ELSE IF category_id \notin d.categories
    THEN Result(d, 404, "CategoryModel not found")
    ELSE IF \E q \in DOMAIN d.products :
                /\ d.products[q].name = name
                /\ d.products[q].category_id = category_id
    THEN Result(d, 400, "A product with this name already exists in this category")
    ELSE LET id == IF DOMAIN d.products = {} THEN 1
                   ELSE SetMax(DOMAIN d.products) + 1
         IN Result([d EXCEPT !.products =
                      [q \in DOMAIN @ \cup {id} |->
                         IF q = id
                         THEN [price |-> price, stock |-> stock,
                               name |-> name, category_id |-> category_id]
                         ELSE @[q]]],
                   201, "Product created successfully")

\* Products.delete: abort_if_not_found is outside the try block.  Deleting
\* the product deletes its cart items (cascade 'all, delete-orphan') and
\* sets product_id of its order items to NULL (relationship without
\* cascade), which the column, nullable=False, refuses.
Products_delete(d, product_id) ==
    IF product_id \notin DOMAIN d.products
    THEN Result(d, 404, "ProductModel not found")
    ELSE IF \E i \in d.order_items : i.product_id = product_id
    THEN Result(d, 500, "An error occurred while deleting product")
    ELSE Result([d EXCEPT
                   !.products = [q \in DOMAIN @ \ {product_id} |-> @[q]],
                   !.cart_items = {i \in @ : i.product_id # product_id}],
                200, "Product deleted successfully")

\* ------------------------------------------------------------ Categories
\* Categories.delete without the test of category.products.
Categories_delete_unchecked(d, category_id) ==
    IF category_id \notin d.categories
    THEN Result(d, 404, "CategoryModel not found")
    ELSE Result([d EXCEPT !.categories = @ \ {category_id}],
                200, "Category deleted successfully")

\* Categories.delete: both aborts are outside the try block.
Categories_delete(d, category_id) ==
    IF category_id \notin d.categories
    THEN Result(d, 404, "CategoryModel not found")
    ELSE IF \E q \in DOMAIN d.products : d.products[q].category_id = category_id
    THEN Result(d, 400, "Cannot delete category with associated products")
    ELSE Result([d EXCEPT !.categories = @ \ {category_id}],
                200, "Category deleted successfully")

\* ----------------------------------------------------------------- Users
\* username and email are unique=True columns: the rows a commit leaves
\* must differ in both.
users_unique(rows) ==
    \A u, v \in DOMAIN rows :
        u # v => /\ rows[u].username # rows[v].username
                 /\ rows[u].email # rows[v].email

\* Users.post: every rejection is a returned 400.
Users_post(d, username, email, password) ==
    IF Len(username) = 0 \/ Len(strip(username)) = 0
    THEN Result(d, 400, "Username is required")
    ELSE IF Len(username) < 3
    THEN Result(d, 400, "Username must be at least 3 characters long")
    ELSE IF \E u \in d.users : d.accounts[u].username = username
    THEN Result(d, 400, "Username already exists")
    ELSE IF ~validate_email(email) THEN Result(d, 400, "Invalid email format")
    ELSE IF \E u \in d.users : d.accounts[u].email = email
    THEN Result(d, 400, "Email already exists")
    ELSE IF Len(password) < 6
    THEN Result(d, 400, "Password must be at least 6 characters long")
    ELSE
    LET id == IF d.users = {} THEN 1 ELSE SetMax(d.users) + 1
        new_user == [username |-> username, email |-> email,
                     password |-> set_password(password)]
        rows == [u \in d.users \cup {id} |->
                    IF u = id THEN new_user ELSE d.accounts[u]]
    IN IF ~users_unique(rows)
       THEN Result(d, 500, "An error occurred while creating the user")
       ELSE Result([d EXCEPT !.users = @ \cup {id}, !.accounts = rows],
                   201, "User created successfully")

\* The steps of Users.put over the row `user` of the session: a field that
\* is sent (a text that is not empty) is checked and assigned, in the order
\* username, email, password.  ok is FALSE where the step aborts.
put_username(d, user_id, user, username) ==
    IF Len(username) = 0 THEN [ok |-> TRUE, user |-> user]
    ELSE IF Len(strip(username)) < 2 THEN [ok |-> FALSE, user |-> user]
    ELSE IF \E u \in d.users \ {user_id} : d.accounts[u].username = username
    THEN [ok |-> FALSE, user |-> user]
    ELSE [ok |-> TRUE, user |-> [user EXCEPT !.username = username]]

put_email(d, user_id, user, email) ==
    IF Len(email) = 0 THEN [ok |-> TRUE, user |-> user]
    ELSE IF ~email_pattern(email) THEN [ok |-> FALSE, user |-> user]
    ELSE IF \E u \in d.users \ {user_id} : d.accounts[u].email = email
    THEN [ok |-> FALSE, user |-> user]
    ELSE [ok |-> TRUE, user |-> [user EXCEPT !.email = email]]

put_password(user, password) ==
    IF Len(password) = 0 THEN [ok |-> TRUE, user |-> user]
    ELSE IF Len(password) < 6 THEN [ok |-> FALSE, user |-> user]
    ELSE [ok |-> TRUE, user |-> [user EXCEPT !.password = set_password(password)]]

\* Users.put in which a step that aborts keeps what the steps before it
\* assigned.
Users_put_keeps_assigned(d, user_id, username, email, password) ==
    IF user_id \notin d.users THEN Result(d, 404, "UserModel not found")
    ELSE
    LET a == put_username(d, user_id, d.accounts[user_id], username)
        b == put_email(d, user_id, a.user, email)
        c == put_password(b.user, password)
        stored(user) == [d EXCEPT !.accounts[user_id] = user]
    IN IF ~a.ok THEN Swallowed(d, 400)
       ELSE IF ~b.ok THEN Swallowed(stored(a.user), 400)
       ELSE IF ~c.ok THEN Swallowed(stored(b.user), 400)
       ELSE Result(stored(c.user), 200, "User updated successfully")

\* Users.put without the test that another user has the username and
\* without the unique index on the column.
Users_put_takes_username(d, user_id, username, email, password) ==
    IF user_id \notin d.users THEN Result(d, 404, "UserModel not found")
    ELSE
    LET a == IF Len(username) = 0 THEN [ok |-> TRUE, user |-> d.accounts[user_id]]
             ELSE IF Len(strip(username)) < 2
             THEN [ok |-> FALSE, user |-> d.accounts[user_id]]
             ELSE [ok |-> TRUE,
                   user |-> [d.accounts[user_id] EXCEPT !.username = username]]
        b == put_email(d, user_id, a.user, email)
        c == put_password(b.user, password)
    IN IF ~a.ok \/ ~b.ok \/ ~c.ok THEN Swallowed(d, 400)
       ELSE Result([d EXCEPT !.accounts[user_id] = c.user],
                   200, "User updated successfully")

\* Users.put: abort_if_not_found is outside the try block; every abort(400)
\* is inside it, so the session is rolled back, what was assigned is
\* discarded and the answer is 500.
Users_put(d, user_id, username, email, password) ==
    IF user_id \notin d.users THEN Result(d, 404, "UserModel not found")
    ELSE
    LET a == put_username(d, user_id, d.accounts[user_id], username)
        b == put_email(d, user_id, a.user, email)
        c == put_password(b.user, password)
        rows == [d.accounts EXCEPT ![user_id] = c.user]
    IN IF ~a.ok \/ ~b.ok \/ ~c.ok THEN Swallowed(d, 400)
       ELSE IF ~users_unique(rows) THEN Result(d, 500, "IntegrityError")
       ELSE Result([d EXCEPT !.accounts = rows],
                   200, "User updated successfully")

\* Users.delete without the cascade to the user's cart items.
Users_delete_keeps_cart(d, user_id) ==
    IF user_id \notin d.users THEN Result(d, 404, "UserModel not found")
    ELSE IF \E o \in d.orders : o.user_id = user_id THEN Swallowed(d, 400)
    ELSE Result([d EXCEPT
                   !.users = @ \ {user_id},
                   !.accounts = [u \in DOMAIN @ \ {user_id} |-> @[u]]],
                200, "User deleted successfully")

\* Users.delete: abort_if_not_found is outside the try block; the abort(400)
\* for a user with orders is inside it and is answered with 500.  Deleting
\* the user deletes the user's cart items (cascade 'all, delete-orphan').
Users_delete(d, user_id) ==
    IF user_id \notin d.users THEN Result(d, 404, "UserModel not found")
    ELSE IF \E o \in d.orders : o.user_id = user_id THEN Swallowed(d, 400)
    ELSE Result([d EXCEPT
                   !.users = @ \ {user_id},
                   !.accounts = [u \in DOMAIN @ \ {user_id} |-> @[u]],
                   !.cart_items = {i \in @ : i.user_id # user_id}],
                200, "User deleted successfully")

\* ---------------------------------------------------------------- Orders
\* OrderModel(user_id=...): status takes its default, total_amount is never
\* given a value.  OrderItemModel(order_id, product_id, quantity) likewise
\* leaves price_at_time without a value.
OrderModel(d, user_id) ==
    [id |-> NextId(d.orders), user_id |-> user_id,
     total_amount |-> NULL, status |-> "pending"]

OrderItemModel(d, order_id, product_id, quantity) ==
    [id |-> NextId(d.order_items), order_id |-> order_id,
     product_id |-> product_id, quantity |-> quantity, price_at_time |-> NULL]

\* nullable=False of orders.total_amount and order_items.price_at_time: the
\* INSERT of a row holding NULL there raises IntegrityError.
orders_not_null(row) == row.total_amount # NULL
order_items_not_null(row) == row.price_at_time # NULL

\* The loop over args['items'] from line k on, over the session's view d of
\* the tables.  `loaded` are the product ids already in the identity map:
\* ProductModel.query.get of another id emits a SELECT, which autoflushes
\* the pending order items.  Each abort is preceded by a rollback.
RECURSIVE order_lines(_, _, _, _, _)
order_lines(d, order_id, items, k, loaded) ==
    IF k > Len(items) THEN [ok |-> TRUE, db |-> d, status |-> 0, message |-> ""]
    ELSE
    LET item == items[k]
        pending == {i \in d.order_items : i.order_id = order_id}
        fail(status, message) ==
            [ok |-> FALSE, db |-> d, status |-> status, message |-> message]
    IN IF /\ item.product_id \notin loaded
          /\ \E i \in pending : ~order_items_not_null(i)
       THEN fail(500, "IntegrityError")
       ELSE IF item.product_id \notin DOMAIN d.products
       THEN fail(404, "Product not found")
       ELSE IF item.quantity <= 0
       THEN fail(400, "Quantity must be positive")
       ELSE IF d.products[item.product_id].stock < item.quantity
       THEN fail(400, "Insufficient stock")
       ELSE order_lines(
              [d EXCEPT
                 !.order_items = @ \cup
                    {OrderItemModel(d, order_id, item.product_id, item.quantity)},
                 !.products[item.product_id].stock = @ - item.quantity],
              order_id, items, k + 1, loaded \cup {item.product_id})

\* The loop of Orders.post with every line's price recorded and every line
\* committed as it is processed: a line that fails leaves the lines before
\* it behind.
RECURSIVE order_lines_committed(_, _, _, _)
order_lines_committed(d, order_id, items, k) ==
    IF k > Len(items) THEN Result(d, 201, "Order created successfully")
    ELSE
    LET item == items[k]
    IN IF item.product_id \notin DOMAIN d.products
       THEN Result(d, 404, "Product not found")
       ELSE IF item.quantity <= 0
       THEN Result(d, 400, "Quantity must be positive")
       ELSE IF d.products[item.product_id].stock < item.quantity
       THEN Result(d, 400, "Insufficient stock")
       ELSE order_lines_committed(
              [d EXCEPT
                 !.order_items = @ \cup
                    {[OrderItemModel(d, order_id, item.product_id, item.quantity)
                        EXCEPT !.price_at_time = Val(d.products[item.product_id].price)]},
                 !.products[item.product_id].stock = @ - item.quantity],
              order_id, items, k + 1)

\* Orders.post with the order header given a total of 0 and committed
\* before the lines, and the lines committed one by one.
Orders_post_commits_lines(d, user_id, items) ==
    IF Len(items) = 0 THEN Result(d, 400, "Order must contain at least one item")
    ELSE IF user_id \notin d.users THEN Result(d, 404, "User not found")
    ELSE
    LET order == [OrderModel(d, user_id) EXCEPT !.total_amount = Val(0)]
    IN order_lines_committed([d EXCEPT !.orders = @ \cup {order}],
                             order.id, items, 1)

\* Orders.post.  The empty-list and user checks abort outside any try block
\* (400, 404).  db.session.flush() then INSERTs the order row: with
\* total_amount NULL it raises IntegrityError, outside any try block, so the
\* request is answered with 500 and the session is discarded with the
\* request.  What follows the flush is translated as written.
Orders_post(d, user_id, items) ==
    IF Len(items) = 0 THEN Result(d, 400, "Order must contain at least one item")
    ELSE IF user_id \notin d.users THEN Result(d, 404, "User not found")
    ELSE
    LET order == OrderModel(d, user_id)
    IN IF ~orders_not_null(order) THEN Result(d, 500, "IntegrityError")
       ELSE
       LET d1 == [d EXCEPT !.orders = @ \cup {order}]
           r == order_lines(d1, order.id, items, 1, {})
       IN IF ~r.ok THEN Result(d, r.status, r.message)
          ELSE IF \E i \in r.db.order_items : ~order_items_not_null(i)
          THEN Result(d, 500, "IntegrityError")
          ELSE Result(r.db, 201, "Order created successfully")

\* ------------------------------------------------------------- main.py
\* app_context_available for a main.py that imports the application object.
app_context_imported == TRUE

\* main.py binds `app` with `from flask import app`, the module flask.app,
\* which has no attribute app_context: every method of
\* StoreManagementSystem raises AttributeError at `with app.app_context():`
\* before it reaches the store.
app_context_available == FALSE

\* A method of main.py answers 0 when it returns and -1 when it raises.
StoreManagementSystem_add_to_cart(d, user_id, product_id, quantity) ==
    IF ~app_context_available THEN Result(d, -1, "AttributeError")
    ELSE IF product_id \notin DOMAIN d.products THEN Result(d, 0, "El producto no existe")
    ELSE IF d.products[product_id].stock < quantity
    THEN Result(d, 0, "No hay suficiente stock")
    ELSE
    LET cart_item == first_cart_item(d, user_id, product_id)
        updated_quantity == IF cart_item # NULL
                        THEN Row(cart_item).quantity + quantity ELSE quantity
        row == IF cart_item # NULL
               THEN [Row(cart_item) EXCEPT !.quantity = updated_quantity]
               ELSE [id |-> NextId(d.cart_items), user_id |-> user_id,
                     product_id |-> product_id, quantity |-> quantity]
    IN IF ~validate_quantity(updated_quantity) THEN Result(d, -1, "ValueError")
       ELSE Result([d EXCEPT
                      !.cart_items = (@ \ cart_item) \cup {row},
                      !.products[product_id].stock = @ - quantity],
                   0, "Producto agregado al carrito")

\* create_order: OrderModel has no columns order_date and shipping_address,
\* so constructing the order raises TypeError whenever the cart is not empty.
StoreManagementSystem_create_order(d, user_id) ==
    IF ~app_context_available THEN Result(d, -1, "AttributeError")
    ELSE IF get_user_cart(d, user_id) = {} THEN Result(d, 0, "El carrito esta vacio")
    ELSE Result(d, -1, "TypeError")

\* --------------------------------------------------------------- requests
\* The lines an order request may carry, and the requests of 0..MaxLines lines.
OrderLines == [product_id : RequestProductIds, quantity : OrderQuantities]

OrderItemLists == UNION {[1..n -> OrderLines] : n \in 0..MaxLines}

\* The first line of an order request that one of the handler's line checks
\* rejects (product missing, quantity <= 0, stock < quantity after the lines
\* before it), 0 when every line passes.  `taken` is the quantity the lines
\* before k take of each product.
RECURSIVE first_bad_line(_, _, _, _)
first_bad_line(d, items, k, taken) ==
    IF k > Len(items) THEN 0
    ELSE LET p == items[k].product_id
             q == items[k].quantity
         IN IF \/ p \notin DOMAIN d.products
               \/ q <= 0
               \/ d.products[p].stock - taken[p] < q
            THEN k
            ELSE first_bad_line(d, items, k + 1, [taken EXCEPT ![p] = @ + q])

FirstBadLine(d, items) ==
    first_bad_line(d, items, 1, [p \in RequestProductIds |-> 0])

\* A handler's result becomes the stored state; `last` is the response that
\* was given (op names the handler) with `info`, what the action adds to it
\* (<<>> when it adds nothing).
Commit(r, op, info) ==
    /\ users' = r.db.users
    /\ products' = r.db.products
    /\ cart_items' = Renumber(r.db.cart_items)
    /\ orders' = r.db.orders
    /\ order_items' = r.db.order_items
    /\ accounts' = r.db.accounts
    /\ categories' = r.db.categories
    /\ in_flight' = in_flight
    /\ last' = [op |-> op, status |-> r.status, message |-> r.message] @@ info

\* The order requests that may be in flight at a time.
RequestSlots == 1..2

\* What every specification starts with besides its users, products and
\* carts: the categories exist, there are no orders, no request is in flight.
InitRest ==
    /\ accounts = [u \in users |-> InitAccount(u)]
    /\ categories = CategoryIds
    /\ orders = {}
    /\ order_items = {}
    /\ in_flight = [c \in RequestSlots |-> NULL]
    /\ last = [op |-> "init", status |-> 0, message |-> ""]

\* The state the handlers start from: the users and products exist (created
\* through validated requests, as the test fixture does), the carts are empty
\* and there are no orders.
Init ==
    /\ users = UserIds
    /\ products = [p \in ProductIds |-> InitProduct(p)]
    /\ cart_items = {}
    /\ InitRest

GetCart ==
    \E u \in RequestUserIds :
        LET r == Cart_get(DB, u)
        IN Commit(r, "cart_get", [items |-> r.items])

AddItem ==
    \E u \in RequestUserIds, p \in RequestProductIds,
       q \in Quantities, replace \in BOOLEAN :
        LET r == Cart_post(DB, u, p, q, replace)
        IN Commit(r, "cart_post",
                  IF r.status \in {200, 201}
                  THEN [replace |-> replace, quantity |-> r.quantity]
                  ELSE [replace |-> replace])

UpdateItem ==
    \E u \in RequestUserIds, p \in RequestProductIds, q \in Quantities :
        LET r == Cart_put(DB, u, p, q)
        IN Commit(r, "cart_put",
                  IF r.status = 200 THEN [quantity |-> r.quantity] ELSE <<>>)

RemoveOrClear ==
    \E u \in RequestUserIds, p \in {0} \cup RequestProductIds :
        Commit(Cart_delete(DB, u, p), "cart_delete", <<>>)

\* `lines` and `bad` describe the request: how many lines it had and which
\* was the first that fails a line check in the state the request met.
CreateOrder ==
    \E u \in RequestUserIds, items \in OrderItemLists :
        Commit(Orders_post(DB, u, items), "orders_post",
               [lines |-> Len(items), bad |-> FirstBadLine(DB, items)])

MainAddToCart ==
    \E u \in RequestUserIds, p \in RequestProductIds, q \in Quantities :
        Commit(StoreManagementSystem_add_to_cart(DB, u, p, q), "main_add_to_cart",
               <<>>)

MainCreateOrder ==
    \E u \in RequestUserIds :
        Commit(StoreManagementSystem_create_order(DB, u), "main_create_order",
               <<>>)

\* A product update that sends the stored name and category with a price
\* and a stock.
UpdateProduct ==
    \E p \in RequestProductIds, price \in PutPrices, stock \in PutStocks :
        LET stored == IF p \in DOMAIN products THEN products[p] ELSE InitProduct(p)
        IN Commit(Products_put(DB, p, stored.name, price, stock, stored.category_id),
                  "products_put", <<>>)

\* `cascaded` is the number of cart items the deletion took with it.
DeleteUser ==
    \E u \in RequestUserIds :
        LET r == Users_delete(DB, u)
        IN Commit(r, "users_delete",
                  [cascaded |-> Cardinality(cart_items \ r.db.cart_items)])

DeleteProduct ==
    \E p \in RequestProductIds :
        LET r == Products_delete(DB, p)
        IN Commit(r, "products_delete",
                  [cascaded |-> Cardinality(cart_items \ r.db.cart_items)])

\* Two order requests at a time.  OrderBegin is parse_args of line 666: the
\* request waits in its slot with status 0.  OrderFinish is lines 668-711:
\* the INSERT of the flush takes the write lock of the SQLite file, which
\* the session holds until it commits or rolls back, so what a request does
\* from the flush on is not interleaved with the other request.
\* `overlapped` tells that the other request was waiting meanwhile.
ConcurrentOrderLists ==
    {items \in OrderItemLists :
        /\ Len(items) > 0
        /\ \A k \in 1..Len(items) : items[k].product_id = items[1].product_id}

OrderBegin(c) ==
    /\ in_flight[c] = NULL
    /\ \E u \in UserIds, items \in ConcurrentOrderLists :
         in_flight' = [in_flight EXCEPT
                          ![c] = Val([user_id |-> u, items |-> items, status |-> 0,
                                      overlapped |-> FALSE])]
    /\ UNCHANGED <<users, products, cart_items, orders, order_items, last,
                   accounts, categories>>

OrderFinish(c) ==
    /\ in_flight[c] # NULL
    /\ Row(in_flight[c]).status = 0
    /\ LET request == Row(in_flight[c])
           r == Orders_post(DB, request.user_id, request.items)
       IN /\ users' = r.db.users
          /\ products' = r.db.products
          /\ cart_items' = r.db.cart_items
          /\ orders' = r.db.orders
          /\ order_items' = r.db.order_items
          /\ accounts' = r.db.accounts
          /\ categories' = r.db.categories
          /\ in_flight' = [in_flight EXCEPT
                              ![c] = Val([request EXCEPT
                                            !.status = r.status,
                                            !.overlapped =
                                               \E o \in RequestSlots \ {c} :
                                                  /\ in_flight[o] # NULL
                                                  /\ Row(in_flight[o]).status = 0])]
          /\ last' = [op |-> "orders_post_concurrent", status |-> r.status,
                      message |-> r.message]

\* User requests: a blank username, one of two characters, and the
\* usernames and e-mail addresses of the users that can be stored; an
\* address without a domain; a short and a new password.  The empty text
\* is a field that is not sent.
BlankName == <<" ", " ", " ">>
ShortName == <<"a", "b">>
BadEmail == <<"u", "1", "@", "x">>
ShortPassword == <<"p", "w">>
NewPassword == <<"s", "e", "c", "r", "e", "t", "2">>
RequestUsernames == {BlankName, ShortName} \cup {InitUsername(u) : u \in RequestUserIds}
RequestEmails == {BadEmail} \cup {InitEmail(u) : u \in RequestUserIds}
RequestPasswords == {ShortPassword, NewPassword}

\* A user is created while the table holds at most NumUsers rows.
CreateUser ==
    /\ Cardinality(users) <= NumUsers
    /\ \E username \in RequestUsernames, email \in RequestEmails,
          password \in RequestPasswords :
         Commit(Users_post(DB, username, email, password), "users_post", <<>>)

\* `sent` is the number of fields the update request carried, `kept` that
\* it sent the user's own username and e-mail address, `assigned` that its
\* username passed the checks and was assigned to the row.
UpdateUser ==
    \E u \in RequestUserIds, username \in RequestUsernames \cup {<<>>},
       email \in RequestEmails \cup {<<>>}, password \in RequestPasswords \cup {<<>>} :
        Commit(Users_put(DB, u, username, email, password), "users_put",
               [sent |-> Cardinality({f \in {<<1, username>>, <<2, email>>, <<3, password>>} :
                                        Len(f[2]) > 0}),
                kept |-> /\ u \in users
                         /\ username = accounts[u].username
                         /\ email = accounts[u].email,
                assigned |-> /\ u \in users
                             /\ Len(username) > 0
                             /\ username # accounts[u].username
                             /\ put_username(DB, u, accounts[u], username).ok])

DeleteCategory ==
    \E c \in RequestCategoryIds :
        Commit(Categories_delete(DB, c), "categories_delete", <<>>)

\* A product is created while the table holds at most NumProducts rows.
CreateProduct ==
    /\ Cardinality(DOMAIN products) <= NumProducts
    /\ \E name \in ProductNames, price \in PostPrices, stock \in PostStocks,
          c \in RequestCategoryIds :
         Commit(Products_post(DB, name, price, stock, c), "products_post", <<>>)

\* A product update with a name, a category, a price and a stock.
EditNames == {InitName(1), <<"l", "a", "m", "p">>}

EditProduct ==
    \E p \in RequestProductIds, name \in EditNames, price \in EditPrices,
       stock \in EditStocks, c \in CategoryIds :
        Commit(Products_put(DB, p, name, price, stock, c), "products_put", <<>>)

\* The store with every requestable user registered, so that a request of
\* one user meets the cart of another, and a user id goes missing only by
\* deletion.
StoreUserIds == RequestUserIds

InitStore ==
    /\ users = StoreUserIds
    /\ products = [p \in ProductIds |-> InitProduct(p)]
    /\ cart_items = {}
    /\ InitRest

\* A cart two lines short of MAX_CART_ITEMS, as MAX_CART_ITEMS - 2 accepted
\* add requests leave it, in a store of MAX_CART_ITEMS + 1 products in stock.
LimitCatalog == 1..(MAX_CART_ITEMS + 1)
LimitProductIds == (MAX_CART_ITEMS - 1)..(MAX_CART_ITEMS + 1)

InitNearLimit ==
    /\ users = UserIds
    /\ products = [p \in LimitCatalog |-> [InitProduct(p) EXCEPT !.stock = StockCycle[1]]]
    /\ cart_items = {[id |-> p, user_id |-> u, product_id |-> p, quantity |-> 40] :
                        u \in {1}, p \in 1..(MAX_CART_ITEMS - 2)}
    /\ InitRest

\* Add and remove requests for the products around the limit.
AddItemNearLimit ==
    \E u \in UserIds, p \in LimitProductIds, q \in Quantities, replace \in BOOLEAN :
        LET r == Cart_post(DB, u, p, q, replace)
        IN Commit(r, "cart_post",
                  IF r.status \in {200, 201}
                  THEN [replace |-> replace, quantity |-> r.quantity]
                  ELSE [replace |-> replace])

RemoveItemNearLimit ==
    \E u \in UserIds, p \in LimitProductIds :
        Commit(Cart_delete(DB, u, p), "cart_delete", <<>>)

\* The cart handlers.
NextCart ==
    \/ GetCart
    \/ AddItem
    \/ UpdateItem
    \/ RemoveOrClear

\* Cart operations and order creations, of the API and of main.py.
NextCartOrder ==
    \/ GetCart
    \/ AddItem
    \/ UpdateItem
    \/ RemoveOrClear
    \/ CreateOrder
    \/ MainAddToCart
    \/ MainCreateOrder

Next ==
    \/ GetCart
    \/ AddItem
    \/ UpdateItem
    \/ RemoveOrClear
    \/ CreateOrder
    \/ MainAddToCart
    \/ MainCreateOrder
    \/ UpdateProduct
    \/ DeleteUser
    \/ DeleteProduct

\* Cart operations and the deletion of users and products.
NextStore ==
    \/ GetCart
    \/ AddItem
    \/ UpdateItem
    \/ RemoveOrClear
    \/ DeleteUser
    \/ DeleteProduct

\* Order creations and the deletion of users and products.
NextAccounts ==
    \/ CreateOrder
    \/ DeleteUser
    \/ DeleteProduct

NextNearLimit ==
    \/ AddItemNearLimit
    \/ RemoveItemNearLimit

Spec == Init /\ [][Next]_vars

SpecStore == InitStore /\ [][NextStore]_vars

\* The creation and deletion of products and the deletion of categories.
NextCategories ==
    \/ CreateProduct
    \/ DeleteProduct
    \/ DeleteCategory

\* The creation and update of products.
NextCatalog ==
    \/ CreateProduct
    \/ EditProduct

\* Two order requests in flight.
NextConcurrentOrders ==
    \/ \E c \in RequestSlots : OrderBegin(c)
    \/ \E c \in RequestSlots : OrderFinish(c)

SpecConcurrentOrders == Init /\ [][NextConcurrentOrders]_vars

\* The creation and update of users.
NextUsers ==
    \/ CreateUser
    \/ UpdateUser

SpecUsers == Init /\ [][NextUsers]_vars

SpecCategories == Init /\ [][NextCategories]_vars

SpecCatalog == Init /\ [][NextCatalog]_vars

SpecAccounts == InitStore /\ [][NextAccounts]_vars

SpecNearLimit == InitNearLimit /\ [][NextNearLimit]_vars

SpecCartOrder == Init /\ [][NextCartOrder]_vars

SpecCart == Init /\ [][NextCart]_vars


\* ------------------------------------------------------------- properties
\* An order request the handler's own checks accept: the user exists, the
\* list is not empty and no line is rejected.
WellFormed(d, user_id, items) ==
    /\ user_id \in d.users
    /\ Len(items) > 0
    /\ FirstBadLine(d, items) = 0

\* The quantity the lines of an order request take of product p.
RECURSIVE LineSum(_, _, _)
LineSum(items, p, k) ==
    IF k > Len(items) THEN 0
    ELSE (IF items[k].product_id = p THEN items[k].quantity ELSE 0)
         + LineSum(items, p, k + 1)

\* The sum of quantity * price_at_time over a set of order items.
RECURSIVE SumAmounts(_)
SumAmounts(S) ==
    IF S = {} THEN 0
    ELSE LET i == CHOOSE x \in S : TRUE
         IN (IF i.price_at_time = NULL THEN 0
             ELSE i.quantity * Row(i.price_at_time))
            + SumAmounts(S \ {i})

\* The stored quantity of the pair (user_id, product_id) in d: NULL or Val(q).
StoredQuantity(d, user_id, product_id) ==
    {i.quantity : i \in first_cart_item(d, user_id, product_id)}

\* C1: the stock of every product is at least 0 in every state reached by
\* cart operations and order creations.
C1_StockNeverNegative ==
    \A p \in DOMAIN products : products[p].stock >= 0

\* C1: an order request whose lines pass every check has been handled while
\* items are in a cart.
C1_Witness ==
    /\ last.op = "orders_post"
    /\ last.lines > 0
    /\ last.bad = 0
    /\ cart_items # {}
    /\ \A p \in DOMAIN products : products[p].stock >= 0

\* C2: an order request of an existing user one of whose lines is rejected
\* (missing product, quantity <= 0, insufficient stock) leaves every
\* product's stock, the orders and the order items as they were.
C2_RejectedOrderChangesNothing ==
    \A u \in users, items \in OrderItemLists :
        FirstBadLine(DB, items) # 0 =>
            LET r == Orders_post(DB, u, items)
            IN /\ r.status # 201
               /\ r.db.products = products
               /\ r.db.orders = orders
               /\ r.db.order_items = order_items

\* C2: an order request of two lines whose second line is the first to be
\* rejected has been refused, and no order and no order item is stored.
C2_Witness ==
    /\ last.op = "orders_post"
    /\ last.lines = 2
    /\ last.bad = 2
    /\ last.status \notin {201, 404}
    /\ orders = {}
    /\ order_items = {}

\* C3: an order request whose lines pass every check stores an order whose
\* total_amount is the sum of quantity * price_at_time over its order items.
C3_OrderTotalIsSumOfLines ==
    \A u \in users, items \in OrderItemLists :
        WellFormed(DB, u, items) =>
            LET r == Orders_post(DB, u, items)
                created == r.db.orders \ orders
            IN /\ created # {}
               /\ \A o \in created :
                    o.total_amount =
                        Val(SumAmounts({i \in r.db.order_items : i.order_id = o.id}))

\* C4: an order request whose lines pass every check lowers the stock of
\* each product by the sum of the quantities of the lines that name it, and
\* leaves the stock of every other product unchanged.
C4_OrderLowersStockByLines ==
    \A u \in users, items \in OrderItemLists :
        WellFormed(DB, u, items) =>
            LET r == Orders_post(DB, u, items)
            IN \A p \in DOMAIN products :
                 r.db.products[p].stock = products[p].stock - LineSum(items, p, 1)

\* C5: an order request whose lines pass every check stores one order item
\* per line, each with price_at_time equal to the product's price when the
\* order is created.
C5_PriceAtTimeIsSnapshot ==
    \A u \in users, items \in OrderItemLists :
        WellFormed(DB, u, items) =>
            LET r == Orders_post(DB, u, items)
                created == r.db.order_items \ order_items
            IN /\ created # {}
               /\ \A i \in created :
                    i.price_at_time = Val(products[i.product_id].price)

\* C6: after an order request whose lines pass every check, the cart of the
\* user who placed it holds no items.
C6_OrderEmptiesCart ==
    \A u \in users, items \in OrderItemLists :
        WellFormed(DB, u, items) =>
            get_user_cart(Orders_post(DB, u, items).db, u) = {}

\* C7: the quantity of every stored cart item is between 1 and 99.
C7_CartQuantityInRange ==
    \A i \in cart_items :
        /\ i.quantity >= MIN_QUANTITY
        /\ i.quantity <= MAX_QUANTITY

\* C7: an add request has been refused for its quantity while a cart item
\* of quantity 80 is stored.
C7_Witness ==
    /\ last.op = "cart_post"
    /\ last.status = 500
    /\ last.message[2] = 400
    /\ \E i \in cart_items : i.quantity = 80

C9_NonPositiveAddIsRefused ==
    \A u \in users, p \in DOMAIN products, q \in Quantities, replace \in BOOLEAN :
        (q <= 0 /\ products[p].stock > 0) =>
            LET r == Cart_post(DB, u, p, q, replace)
            IN /\ r.status \notin {200, 201}
               /\ r.db.cart_items = cart_items

\* C10: an add request that succeeds stores a quantity that is at most the
\* product's stock.
C10_AddNeverExceedsStock ==
    \A u \in users, p \in DOMAIN products, q \in Quantities, replace \in BOOLEAN :
        LET r == Cart_post(DB, u, p, q, replace)
        IN r.status \in {200, 201} =>
             \A i \in first_cart_item(r.db, u, p) : i.quantity <= products[p].stock

\* The cart items of everyone but user_id.
OtherCarts(d, user_id) == {i \in d.cart_items : i.user_id # user_id}

\* C11: when Get cart finds an item of an existing product whose stock is
\* at least 1 and below the item's quantity, the item is kept with its
\* quantity reduced to the stock, stored so and returned so.
C11_GetCartReducesToStock ==
    \A u \in users :
        \A i \in get_user_cart(DB, u) :
            (/\ i.product_id \in DOMAIN products
             /\ products[i.product_id].stock >= 1
             /\ products[i.product_id].stock < i.quantity) =>
                LET r == Cart_get(DB, u)
                    stock == products[i.product_id].stock
                IN /\ r.status = 200
                   /\ StoredQuantity(r.db, u, i.product_id) = Val(stock)
                   /\ [product_id |-> i.product_id, quantity |-> stock] \in r.items

\* C12: every cart item references an existing user and an existing
\* product, deletions of users and products included.
C12_CartItemsReferenceExisting ==
    \A i \in cart_items :
        /\ i.user_id \in users
        /\ i.product_id \in DOMAIN products

\* C12: a user who had cart items has been deleted, and the items with the
\* user, while another user's items are still stored.
C12_Witness ==
    /\ last.op = "users_delete"
    /\ last.status = 200
    /\ last.cascaded > 0
    /\ cart_items # {}
    /\ \A i \in cart_items : i.user_id \in users

\* C13: get, add, update, remove and clear answer 404 for a user that does
\* not exist, add answers 404 for a product that does not exist, and none
\* of them changes anything.
C13_MissingUserOrProductIs404 ==
    /\ \A u \in RequestUserIds \ users :
         /\ Cart_get(DB, u).status = 404
         /\ Cart_get(DB, u).db = DB
         /\ \A p \in {0} \cup RequestProductIds :
              /\ Cart_delete(DB, u, p).status = 404
              /\ Cart_delete(DB, u, p).db = DB
         /\ \A p \in RequestProductIds, q \in Quantities :
              /\ Cart_put(DB, u, p, q).status = 404
              /\ Cart_put(DB, u, p, q).db = DB
              /\ \A replace \in BOOLEAN :
                   /\ Cart_post(DB, u, p, q, replace).status = 404
                   /\ Cart_post(DB, u, p, q, replace).db = DB
    /\ \A u \in users, p \in RequestProductIds \ DOMAIN products,
          q \in Quantities, replace \in BOOLEAN :
         /\ Cart_post(DB, u, p, q, replace).status = 404
         /\ Cart_post(DB, u, p, q, replace).db = DB

\* C14: no user's cart holds more than MAX_CART_ITEMS lines; with
\* MAX_CART_ITEMS lines in the cart an add for a product not in it is
\* refused and changes nothing, and an add for a product in it succeeds
\* when the resulting quantity is between 1 and 99.
C14_CartLineLimit ==
    \A u \in users :
        LET cart == get_user_cart(DB, u)
        IN /\ Cardinality(cart) <= MAX_CART_ITEMS
           /\ Cardinality(cart) = MAX_CART_ITEMS =>
                \A p \in LimitProductIds, q \in Quantities, replace \in BOOLEAN :
                    LET existing == first_cart_item(DB, u, p)
                        r == Cart_post(DB, u, p, q, replace)
                    IN IF existing = NULL
                       THEN /\ r.status \notin {200, 201}
                            /\ r.db = DB
                       ELSE LET target == new_quantity(Row(existing).quantity,
                                                       q, replace)
                            IN (target >= MIN_QUANTITY /\ target <= MAX_QUANTITY) =>
                                 /\ r.status = 200
                                 /\ StoredQuantity(r.db, u, p) = Val(target)
                                 /\ Cardinality(get_user_cart(r.db, u))
                                      = MAX_CART_ITEMS

\* C14: an add for a product already in a cart of MAX_CART_ITEMS lines has
\* succeeded.
C14_Witness ==
    /\ last.op = "cart_post"
    /\ last.status = 200
    /\ \E u \in users : Cardinality(get_user_cart(DB, u)) = MAX_CART_ITEMS

\* C15: there is at most one cart item per (user, product) pair.
C15_OneItemPerPair ==
    \A i, j \in cart_items :
        (i.user_id = j.user_id /\ i.product_id = j.product_id) => i = j

\* C15: a second add for a pair has succeeded and the user's cart holds one
\* item.
C15_Witness ==
    /\ last.op = "cart_post"
    /\ last.status = 200
    /\ \E u \in users : Cardinality(get_user_cart(DB, u)) = 1

\* C16: a remove request for a pair without a cart entry answers 404 and
\* changes nothing; for a pair with an entry it deletes that entry and
\* leaves every other cart item as it was.
C16_RemoveItem ==
    \A u \in users, p \in {0} \cup RequestProductIds :
        LET existing == first_cart_item(DB, u, p)
            r == Cart_delete(DB, u, p)
        IN IF existing = NULL
           THEN /\ r.status = 404
                /\ r.db = DB
           ELSE /\ r.status = 200
                /\ r.db.cart_items = cart_items \ existing

C18_UpdateItem ==
    \A u \in users, p \in RequestProductIds, q \in Quantities :
        LET existing == first_cart_item(DB, u, p)
            r == Cart_put(DB, u, p, q)
        IN IF existing = NULL
           THEN /\ r.status = 404
                /\ r.db = DB
           ELSE IF q < MIN_QUANTITY \/ q > MAX_QUANTITY
           THEN /\ r.status = 400
                /\ r.db = DB
           ELSE /\ r.status = 200
                /\ StoredQuantity(r.db, u, p) = Val(q)

\* C19: no cart operation, of the API or of main.py, changes the stock of
\* a product.
C19_CartLeavesStock ==
    \A u \in RequestUserIds :
        /\ Cart_get(DB, u).db.products = products
        /\ \A p \in {0} \cup RequestProductIds :
             Cart_delete(DB, u, p).db.products = products
        /\ \A p \in RequestProductIds, q \in Quantities :
             /\ Cart_put(DB, u, p, q).db.products = products
             /\ StoreManagementSystem_add_to_cart(DB, u, p, q).db.products = products
             /\ \A replace \in BOOLEAN :
                  Cart_post(DB, u, p, q, replace).db.products = products

\* C19: a get request has removed an item whose quantity exceeded the
\* stock, and the products are as they were created.
C19_Witness ==
    /\ last.op = "cart_get"
    /\ last.status = 200
    /\ last.message = "Some items were removed"
    /\ products = [p \in ProductIds |-> InitProduct(p)]

\* C20: once a user has placed an order that passes every check, a request
\* to delete the user answers 400 and the user and the user's orders stay.
C20_UserWithOrdersStays ==
    \A u \in users, items \in OrderItemLists :
        WellFormed(DB, u, items) =>
            LET placed == Orders_post(DB, u, items).db
                r == Users_delete(placed, u)
            IN /\ r.status = 400
               /\ u \in r.db.users
               /\ \E o \in r.db.orders : o.user_id = u

\* C21: a request to delete a category that a product references answers
\* 400 and changes nothing; a category without products is deleted, and
\* the products stay as they were.
C21_CategoryWithProductsStays ==
    \A c \in categories :
        LET r == Categories_delete(DB, c)
        IN IF \E q \in DOMAIN products : products[q].category_id = c
           THEN /\ r.status = 400
                /\ r.db = DB
           ELSE /\ r.status = 200
                /\ r.db.categories = categories \ {c}
                /\ r.db.products = products

\* C21: the deletion of a category that a product references has been
\* refused, and the category is still stored.
C21_Witness ==
    /\ last.op = "categories_delete"
    /\ last.status = 400
    /\ \E c \in categories : \E q \in DOMAIN products : products[q].category_id = c

\* C22: an order request whose lines pass every check stores an order of
\* status pending, and every stored order has status pending.
C22_OrdersArePending ==
    \A u \in users, items \in OrderItemLists :
        WellFormed(DB, u, items) =>
            LET r == Orders_post(DB, u, items)
            IN /\ r.db.orders \ orders # {}
               /\ \A o \in r.db.orders : o.status = "pending"

\* C23: every stored product has 0 <= stock <= 10,000 and
\* 0 < price <= 1,000,000, product create and update requests included.
C23_ProductBounds ==
    \A p \in DOMAIN products :
        /\ products[p].stock >= 0
        /\ products[p].stock <= MAX_STOCK
        /\ products[p].price > 0
        /\ products[p].price <= MAX_PRICE

\* C24: no two products of the same category have the same name, product
\* create and update requests included.
C24_NameUniquePerCategory ==
    \A p, q \in DOMAIN products :
        (/\ p # q
         /\ products[p].category_id = products[q].category_id)
            => products[p].name # products[q].name

\* C25: in every state reached by user creations and updates no two users
\* share a username and no two share an e-mail address; a request that
\* would give a user the username or address of another is refused and
\* changes nothing; an update that sends a user's own username and address
\* is accepted.
C25_UsersUnique ==
    /\ users_unique(accounts)
    /\ \A u \in users :
          /\ Users_put(DB, u, accounts[u].username, accounts[u].email, <<>>).status = 200
          /\ Users_put(DB, u, accounts[u].username, accounts[u].email, <<>>).db = DB
          /\ \A v \in users \ {u} :
                LET by_name == Users_put(DB, u, accounts[v].username, <<>>, <<>>)
                    by_email == Users_put(DB, u, <<>>, accounts[v].email, <<>>)
                IN /\ by_name.status # 200 /\ by_name.db = DB
                   /\ by_email.status # 200 /\ by_email.db = DB
          /\ \A email \in RequestEmails, password \in RequestPasswords :
                LET r == Users_post(DB, accounts[u].username, email, password)
                IN r.status = 400 /\ r.db = DB
          /\ \A username \in RequestUsernames, password \in RequestPasswords :
                LET r == Users_post(DB, username, accounts[u].email, password)
                IN r.status = 400 /\ r.db = DB

\* C25: with two users stored, an update that sent the user's own username
\* and e-mail address has been accepted.
C25_Witness ==
    /\ last.op = "users_put"
    /\ last.status = 200
    /\ last.kept
    /\ Cardinality(users) > 1

\* C26: an order request whose lines each fit the stock of their product,
\* and whose lines for one product together exceed it, is answered with the
\* stock error (400) and leaves the products as they were.
C26_CumulativeStockError ==
    \A u \in users, items \in OrderItemLists :
        ( /\ Len(items) > 0
          /\ \A k \in 1..Len(items) :
                /\ items[k].product_id \in DOMAIN products
                /\ items[k].quantity > 0
                /\ items[k].quantity <= products[items[k].product_id].stock
          /\ \E p \in DOMAIN products : LineSum(items, p, 1) > products[p].stock )
        => LET r == Orders_post(DB, u, items)
           IN r.status = 400 /\ r.db.products = products

\* The quantity of product p that the requests answered 201 ordered.
RECURSIVE OrderedBy(_, _)
OrderedBy(slots, p) ==
    IF slots = {} THEN 0
    ELSE LET c == CHOOSE x \in slots : TRUE
         IN (IF in_flight[c] # NULL /\ Row(in_flight[c]).status = 201
             THEN LineSum(Row(in_flight[c]).items, p, 1) ELSE 0)
            + OrderedBy(slots \ {c}, p)

C28_FailedUpdateChangesNothing ==
    \A u \in users, username \in RequestUsernames \cup {<<>>},
       email \in RequestEmails \cup {<<>>}, password \in RequestPasswords \cup {<<>>} :
        LET r == Users_put(DB, u, username, email, password)
        IN r.status # 200 => r.db = DB

\* C28: an update whose new username passed the checks and was assigned
\* has failed on a later field.
C28_Witness ==
    /\ last.op = "users_put"
    /\ last.status = 500
    /\ last.assigned
    /\ last.sent > 1

\* The quantity of product p in a set of order items.
RECURSIVE SumQuantities(_, _)
SumQuantities(S, p) ==
    IF S = {} THEN 0
    ELSE LET i == CHOOSE x \in S : TRUE
         IN (IF i.product_id = p THEN i.quantity ELSE 0) + SumQuantities(S \ {i}, p)

\* C29: in every state reached by cart operations and order creations, the
\* stock of each product plus the quantities of the stored order items for
\* it is the product's initial stock.
C29_StockPlusOrdered ==
    \A p \in DOMAIN products :
        products[p].stock + SumQuantities(order_items, p) = InitStock(p)

\* C29: an order request whose lines pass every check has been answered.
C29_Witness ==
    /\ last.op = "orders_post"
    /\ last.lines > 0
    /\ last.bad = 0
    /\ last.status = 500
    /\ \A p \in DOMAIN products :
          products[p].stock + SumQuantities(order_items, p) = InitStock(p)

\* C30: a second Get cart for the same user, straight after the first,
\* returns the items and quantities (and so the item_count) of the first,
\* with the same status, and leaves the database as the first left it.
C30_GetCartIdempotent ==
    \A u \in RequestUserIds :
        LET first == Cart_get(DB, u)
            second == Cart_get(first.db, u)
        IN /\ second.items = first.items
           /\ Cardinality(second.items) = Cardinality(first.items)
           /\ second.status = first.status
           /\ second.db = first.db

\* C30: a Get cart has removed an item of a cart and returned another.
C30_Witness ==
    /\ last.op = "cart_get"
    /\ last.status = 200
    /\ last.message = "Some items were removed"
    /\ last.items # {}

====
